---- MODULE Spec2Model ----
(***************************************************************************)
(* Data-Quality-Auditor console: the report view's derivation of the issue *)
(* log (allIssues) and of the indicator summary (issueIndicators) from one *)
(* AuditReport.                                                            *)
(*                                                                         *)
(* A rowId is a JavaScript string; it is modelled as the sequence of its   *)
(* characters (each a one-character string) so that parseInt and           *)
(* localeCompare are computed on it the way the runtime computes them.     *)
(* All other strings (names, labels, severities) are atomic.               *)
(*                                                                         *)
(* The module also holds the configuration form (the six handlers of       *)
(* AuditConfigForm as updaters of the config), the page Home (its async    *)
(* handlers, each an action from one await to the next, the suspended      *)
(* handlers kept in the bag tasks) and the history panel ComparisonView.   *)
(* Each part has its own specification over the same variables:            *)
(* SpecReport, SpecConfig, SpecHome and SpecComparison.                    *)
(***************************************************************************)
EXTENDS Integers, Sequences, FiniteSets, Bags, TLC

VARIABLES
    report,           \* the report prop of AuditReportView (NoReport = null)
    pc,               \* where the render of the view stands
    allIssues,        \* the memoised issue log
    issueIndicators,  \* the memoised indicator list
    config,           \* the config state of the page (an AuditConfig)
    lastCall,         \* the form handler called last
    onlyAddRemove,    \* only addSchemaField/removeSchemaField were called
    file,             \* the file state of the page (NoFile = null)
    currentReport,    \* the report state of the page (NoReport = null)
    reports,          \* the history list of the page
    isRunning,        \* an audit run is under way
    message,          \* the message the page displays
    loadingTemplate,  \* a template fetch is under way
    availableColumns, \* the columns inferred from the file
    compareIds,       \* the two selected ids of ComparisonView ("" = unset)
    comparison,       \* the comparison ComparisonView displays
    tasks,            \* the async handlers suspended at an await
    issued            \* how many requests the user's actions started

reportVars == <<report, pc, allIssues, issueIndicators>>
configVars == <<config, lastCall, onlyAddRemove>>
homeVars == <<file, currentReport, reports, isRunning, message,
              loadingTemplate, availableColumns, compareIds, comparison,
              tasks, issued>>
vars == <<report, pc, allIssues, issueIndicators,
          config, lastCall, onlyAddRemove,
          file, currentReport, reports, isRunning, message,
          loadingTemplate, availableColumns, compareIds, comparison,
          tasks, issued>>

\* ------------------------------------------------------------------------
\* Bounds of the model
\* ------------------------------------------------------------------------

\* A drawn report carries at most this many entries in rule_results,
\* missing_values and schema_results together.
MaxEntries == 3

\* The form keeps at most this many schema fields and rules together.
MaxElements == 3

\* The user's actions start at most this many requests.
MaxCalls == 2

\* ------------------------------------------------------------------------
\* Optional values (a JSON property that may be absent)
\* ------------------------------------------------------------------------

Absent == [present |-> FALSE]
Some(v) == [present |-> TRUE, val |-> v]

\* ------------------------------------------------------------------------
\* parseInt(string), radix omitted  (ECMAScript parseInt)
\* ------------------------------------------------------------------------

WhiteSpace == {" "}

DigitValue(c) ==
    CASE c = "0" -> 0 [] c = "1" -> 1 [] c = "2" -> 2 [] c = "3" -> 3
      [] c = "4" -> 4 [] c = "5" -> 5 [] c = "6" -> 6 [] c = "7" -> 7
      [] c = "8" -> 8 [] c = "9" -> 9 [] c = "a" -> 10 [] c = "b" -> 11
      [] c = "c" -> 12 [] c = "d" -> 13 [] c = "e" -> 14 [] c = "f" -> 15
      [] OTHER -> 99

IsDigitOf(c, radix) == DigitValue(c) < radix

RECURSIVE SkipWhiteSpace(_)
SkipWhiteSpace(s) ==
    IF Len(s) > 0 /\ Head(s) \in WhiteSpace THEN SkipWhiteSpace(Tail(s)) ELSE s

\* The longest prefix of s made of digits of the radix.
RECURSIVE DigitPrefix(_, _)
DigitPrefix(s, radix) ==
    IF Len(s) > 0 /\ IsDigitOf(Head(s), radix)
    THEN <<Head(s)>> \o DigitPrefix(Tail(s), radix)
    ELSE <<>>

RECURSIVE DigitsToNumber(_, _, _)
DigitsToNumber(ds, radix, acc) ==
    IF ds = <<>> THEN acc
    ELSE DigitsToNumber(Tail(ds), radix, acc * radix + DigitValue(Head(ds)))

NaN == [nan |-> TRUE, val |-> 0]
Number(n) == [nan |-> FALSE, val |-> n]
isNaN(x) == x.nan

\* parseInt: leading white space is skipped, a sign is read, "0x" selects
\* radix 16, then the longest digit prefix is converted; what follows the
\* prefix is ignored, and an empty prefix gives NaN.
parseInt(s) ==
    LET t    == SkipWhiteSpace(s)
        neg  == Len(t) > 0 /\ Head(t) = "-"
        u    == IF Len(t) > 0 /\ Head(t) \in {"-", "+"} THEN Tail(t) ELSE t
        hex  == Len(u) >= 2 /\ u[1] = "0" /\ u[2] \in {"x", "X"}
        rdx  == IF hex THEN 16 ELSE 10
        body == IF hex THEN Tail(Tail(u)) ELSE u
        ds   == DigitPrefix(body, rdx)
        n    == DigitsToNumber(ds, rdx, 0)
    IN  IF ds = <<>> THEN NaN ELSE Number(IF neg THEN 0 - n ELSE n)

\* ------------------------------------------------------------------------
\* String.prototype.localeCompare (default locale collation)
\* ------------------------------------------------------------------------

\* Primary collation weight of a character in the root collation:
\* white space < punctuation < digits < letters.  The characters used here
\* have pairwise distinct primary weights, so the comparison is decided at
\* the primary level.
CollationWeight(c) ==
    CASE c = " " -> 1 [] c = "-" -> 2 [] c = "/" -> 3 [] c = "+" -> 4
      [] c = "0" -> 10 [] c = "1" -> 11 [] c = "2" -> 12 [] c = "3" -> 13
      [] c = "4" -> 14 [] c = "5" -> 15 [] c = "6" -> 16 [] c = "7" -> 17
      [] c = "8" -> 18 [] c = "9" -> 19
      [] c = "a" -> 30 [] c = "b" -> 31 [] c = "c" -> 32 [] c = "d" -> 33
      [] c = "e" -> 34 [] c = "f" -> 35 [] c = "n" -> 43 [] c = "x" -> 53
      [] OTHER -> 60

\* Negative, zero or positive as a sorts before, with or after b.
RECURSIVE localeCompare(_, _)
localeCompare(a, b) ==
    IF a = <<>> /\ b = <<>> THEN 0
    ELSE IF a = <<>> THEN -1
    ELSE IF b = <<>> THEN 1
    ELSE IF CollationWeight(Head(a)) < CollationWeight(Head(b)) THEN -1
    ELSE IF CollationWeight(Head(a)) > CollationWeight(Head(b)) THEN 1
    ELSE localeCompare(Tail(a), Tail(b))

\* ------------------------------------------------------------------------
\* The issue-log comparator and Array.prototype.sort
\* ------------------------------------------------------------------------

\* (a, b) => { rowA = parseInt(a.rowId); rowB = parseInt(b.rowId);
\*             if (!isNaN(rowA) && !isNaN(rowB)) return rowA - rowB;
\*             return a.rowId.localeCompare(b.rowId); }
compareIssues(a, b) ==
    LET rowA == parseInt(a.rowId)
        rowB == parseInt(b.rowId)
    IN  IF ~isNaN(rowA) /\ ~isNaN(rowB) THEN rowA.val - rowB.val
        ELSE localeCompare(a.rowId, b.rowId)

\* Insertion of x into an already sorted list, after every element that
\* does not sort after x.
RECURSIVE InsertSorted(_, _)
InsertSorted(sorted, x) ==
    IF sorted = <<>> THEN <<x>>
    ELSE IF compareIssues(x, sorted[Len(sorted)]) >= 0 THEN Append(sorted, x)
    ELSE Append(InsertSorted(SubSeq(sorted, 1, Len(sorted) - 1), x),
                sorted[Len(sorted)])

RECURSIVE SortFrom(_, _)
SortFrom(sorted, rest) ==
    IF rest = <<>> THEN sorted
    ELSE SortFrom(InsertSorted(sorted, Head(rest)), Tail(rest))

\* Mutant of ArraySort: an unstable sort, which puts an issue before the
\* issues it ties with.
RECURSIVE InsertBeforeTies(_, _)
InsertBeforeTies(sorted, x) ==
    IF sorted = <<>> THEN <<x>>
    ELSE IF compareIssues(x, sorted[Len(sorted)]) > 0 THEN Append(sorted, x)
    ELSE Append(InsertBeforeTies(SubSeq(sorted, 1, Len(sorted) - 1), x),
                sorted[Len(sorted)])

RECURSIVE SortFromUnstable(_, _)
SortFromUnstable(sorted, rest) ==
    IF rest = <<>> THEN sorted
    ELSE SortFromUnstable(InsertBeforeTies(sorted, Head(rest)), Tail(rest))

ArraySortUnstable(issues) == SortFromUnstable(<<>>, issues)

\* issues.sort(comparator): the sort is stable (ECMAScript 2019).
ArraySort(issues) == SortFrom(<<>>, issues)

\* ------------------------------------------------------------------------
\* Derivation of the issue log (allIssues)
\* ------------------------------------------------------------------------

NA == <<"n", "/", "a">>

\* enrichedSample.__line__ ?? "n/a"
RowIdOf(sample) == IF sample.line.present THEN sample.line.val ELSE NA

\* JSON.stringify(sample): the rendering of the whole sample.
JSONstringify(sample) == [text |-> "JSON", sample |-> Some(sample)]
NullEmptyValue == [text |-> "NULL / Empty", sample |-> Absent]

\* forEach over a list, each element pushing its sequence: the sequences
\* concatenated in order.
RECURSIVE Flatten(_)
Flatten(xss) ==
    IF xss = <<>> THEN <<>> ELSE Head(xss) \o Flatten(Tail(xss))

RuleIssue(rule, sample) ==
    [rowId        |-> RowIdOf(sample),
     value        |-> JSONstringify(sample),
     errorType    |-> "Rule Failed",
     ruleOrColumn |-> rule.name,
     severity     |-> rule.severity]

\* Mutant of IssuesOfRule: the test of rule.passed is dropped.
IssuesOfRuleAlsoPassed(rule) ==
    IF rule.sample_rows.present
    THEN [i \in 1..Len(rule.sample_rows.val) |->
             RuleIssue(rule, rule.sample_rows.val[i])]
    ELSE <<>>

\* if (!rule.passed && rule.sample_rows) rule.sample_rows.forEach(push)
IssuesOfRule(rule) ==
    IF ~rule.passed /\ rule.sample_rows.present
    THEN [i \in 1..Len(rule.sample_rows.val) |->
             RuleIssue(rule, rule.sample_rows.val[i])]
    ELSE <<>>

RuleIssues(rep) ==
    Flatten([i \in 1..Len(rep.rule_results) |-> IssuesOfRule(rep.rule_results[i])])

\* Mutant of IssueMissingSeverity: the threshold is included (>= 10).
IssueMissingSeverityInclusive(mv) ==
    IF mv.missing_pct >= 10 THEN "error" ELSE "warning"

\* mv.missing_pct > 10 ? "error" : "warning"   (issue log)
IssueMissingSeverity(mv) == IF mv.missing_pct > 10 THEN "error" ELSE "warning"

MissingIssue(mv, sample) ==
    [rowId        |-> RowIdOf(sample),
     value        |-> NullEmptyValue,
     errorType    |-> "Missing Value",
     ruleOrColumn |-> mv.column,
     severity     |-> IssueMissingSeverity(mv)]

\* if (mv.missing_count > 0 && mv.sample_rows) mv.sample_rows.forEach(push)
IssuesOfMissing(mv) ==
    IF mv.missing_count > 0 /\ mv.sample_rows.present
    THEN [i \in 1..Len(mv.sample_rows.val) |->
             MissingIssue(mv, mv.sample_rows.val[i])]
    ELSE <<>>

MissingIssues(rep) ==
    Flatten([i \in 1..Len(rep.missing_values) |-> IssuesOfMissing(rep.missing_values[i])])

\* columns.join(", ")
RECURSIVE Join(_)
Join(cols) ==
    IF cols = <<>> THEN ""
    ELSE IF Len(cols) = 1 THEN cols[1]
    ELSE cols[1] \o ", " \o Join(Tail(cols))

\* !sample[col]: the column is absent from the row or holds the empty string.
Falsy(sample, col) == col \notin DOMAIN sample.cells \/ sample.cells[col] = ""

\* Mutant of PKIsNull: every primary-key column must be empty (every for some).
PKIsNullEvery(pk, sample) ==
    \A i \in 1..Len(pk.columns) : Falsy(sample, pk.columns[i])

\* columns.some(col => !sample[col])
PKIsNull(pk, sample) == \E i \in 1..Len(pk.columns) : Falsy(sample, pk.columns[i])

PKIssue(pk, sample) ==
    [rowId        |-> RowIdOf(sample),
     value        |-> JSONstringify(sample),
     errorType    |-> IF PKIsNull(pk, sample) THEN "PK Null" ELSE "PK Duplicate",
     ruleOrColumn |-> Join(pk.columns),
     severity     |-> "error"]

\* report.primary_key_result.sample_rows.forEach(...) reads a property of
\* sample_rows without testing it: with sample_rows absent it throws a
\* TypeError out of the memo's callback.
PKIssuesThrow(rep) ==
    /\ rep.primary_key_result.present
    /\ ~rep.primary_key_result.val.sample_rows.present

PKIssues(rep) ==
    IF rep.primary_key_result.present
    THEN LET pk == rep.primary_key_result.val
         IN  [i \in 1..Len(pk.sample_rows.val) |->
                 PKIssue(pk, pk.sample_rows.val[i])]
    ELSE <<>>

\* The issues in the order they are pushed, before the sort.
EmittedIssues(rep) == RuleIssues(rep) \o MissingIssues(rep) \o PKIssues(rep)

NoReport == [id |-> "null"]

\* The callback of useMemo for allIssues, when it returns.
DeriveIssueLog(rep) ==
    IF rep = NoReport THEN <<>> ELSE ArraySort(EmittedIssues(rep))

\* ------------------------------------------------------------------------
\* Derivation of the indicators (issueIndicators)
\* ------------------------------------------------------------------------

Indicator(label, detail, severity) ==
    [label |-> label, detail |-> detail, severity |-> severity]

\* item.actual_dtype ?? "n/a"
ActualDtype(item) ==
    IF item.actual_dtype.present THEN item.actual_dtype.val ELSE "n/a"

\* Mutant of IndicatorsOfSchema: the type_mismatch branch is lost.
IndicatorsOfSchemaMissingOnly(item) ==
    IF item.status = "missing"
    THEN <<Indicator("Missing column", item.field, "error")>>
    ELSE <<>>

IndicatorsOfSchema(item) ==
    IF item.status = "missing"
    THEN <<Indicator("Missing column", item.field, "error")>>
    ELSE IF item.status = "type_mismatch"
    THEN <<Indicator("Type mismatch",
                     item.field \o ": expected " \o item.expected_dtype
                        \o ", found " \o ActualDtype(item),
                     "warning")>>
    ELSE <<>>

SchemaIndicators(rep) ==
    Flatten([i \in 1..Len(rep.schema_results) |-> IndicatorsOfSchema(rep.schema_results[i])])

\* missing_pct.toFixed(1) for the whole percentages drawn here.
toFixed1(n) == ToString(n) \o ".0"

\* item.missing_pct > 10 ? "error" : "warning"   (indicators)
IndicatorMissingSeverity(item) ==
    IF item.missing_pct > 10 THEN "error" ELSE "warning"

IndicatorsOfMissing(item) ==
    IF item.missing_count > 0
    THEN <<Indicator("Missing data",
                     item.column \o ": " \o toFixed1(item.missing_pct) \o "%",
                     IndicatorMissingSeverity(item))>>
    ELSE <<>>

MissingIndicators(rep) ==
    Flatten([i \in 1..Len(rep.missing_values) |-> IndicatorsOfMissing(rep.missing_values[i])])

\* Mutant of IndicatorsOfRule: a failed rule is reported only when it
\* carries sample rows, as in the issue log.
IndicatorsOfRuleWithSamples(rule) ==
    IF ~rule.passed /\ rule.sample_rows.present /\ rule.sample_rows.val # <<>>
    THEN <<Indicator("Rule failed",
                     rule.name \o " (" \o ToString(rule.failing_rows) \o " rows)",
                     rule.severity)>>
    ELSE <<>>

IndicatorsOfRule(rule) ==
    IF ~rule.passed
    THEN <<Indicator("Rule failed",
                     rule.name \o " (" \o ToString(rule.failing_rows) \o " rows)",
                     rule.severity)>>
    ELSE <<>>

RuleIndicators(rep) ==
    Flatten([i \in 1..Len(rep.rule_results) |-> IndicatorsOfRule(rep.rule_results[i])])

PKIndicators(rep) ==
    IF rep.primary_key_result.present
    THEN LET pk == rep.primary_key_result.val
         IN  (IF pk.duplicate_count > 0
              THEN <<Indicator("PK duplicate",
                               ToString(pk.duplicate_count) \o " rows", "error")>>
              ELSE <<>>)
             \o
             (IF pk.null_count > 0
              THEN <<Indicator("PK null",
                               ToString(pk.null_count) \o " rows", "error")>>
              ELSE <<>>)
    ELSE <<>>

\* Mutant of DeriveIndicators: the rules are visited before the missing
\* values.
DeriveIndicatorsRulesFirst(rep) ==
    IF rep = NoReport THEN <<>>
    ELSE SchemaIndicators(rep) \o RuleIndicators(rep)
            \o MissingIndicators(rep) \o PKIndicators(rep)

\* The callback of useMemo for issueIndicators.
DeriveIndicators(rep) ==
    IF rep = NoReport THEN <<>>
    ELSE SchemaIndicators(rep) \o MissingIndicators(rep)
            \o RuleIndicators(rep) \o PKIndicators(rep)

\* ------------------------------------------------------------------------
\* The reports the view is given
\* ------------------------------------------------------------------------

\* A sample row: Record<string, string> with the optional reserved key
\* __line__ (line) and the dataset's columns (cells).
Sample(line, cells) == [line |-> line, cells |-> cells]

Line2   == Some(<<"2">>)
Line02  == Some(<<"0", "2">>)
Line10  == Some(<<"1", "0">>)
Line2a  == Some(<<"2", "a">>)
Line2b  == Some(<<"2", "b">>)
Line10a == Some(<<"1", "0", "a">>)
LineEmpty == Some(<<>>)

RuleResult(name, severity, passed, failing_rows, sample_rows) ==
    [name |-> name, severity |-> severity, passed |-> passed,
     failing_rows |-> failing_rows, sample_rows |-> sample_rows]

RuleEntries ==
    { RuleResult("r1", "error", FALSE, 2,
                 Some(<<Sample(Line10a, [id |-> "x"]), Sample(Line2b, [id |-> "y"]),
                        Sample(Line10, [id |-> "z"])>>)),
      RuleResult("r2", "warning", FALSE, 2,
                 Some(<<Sample(Line2a, [id |-> "x"]), Sample(Absent, [id |-> "z"]),
                        Sample(LineEmpty, [id |-> "y"])>>)),
      RuleResult("r3", "info", FALSE, 3, Absent),
      RuleResult("r4", "error", TRUE, 0,
                 Some(<<Sample(Line2, [id |-> "x"])>>)),
      RuleResult("r5", "warning", FALSE, 1, Some(<<>>)) }

MissingValueStat(column, missing_count, missing_pct, sample_rows) ==
    [column |-> column, missing_count |-> missing_count,
     missing_pct |-> missing_pct, sample_rows |-> sample_rows]

MissingEntries ==
    { MissingValueStat("age", 2, 15, Some(<<Sample(Line2, [id |-> "x"])>>)),
      MissingValueStat("name", 1, 10, Some(<<Sample(Absent, [id |-> "x"])>>)),
      MissingValueStat("city", 0, 0, Some(<<Sample(Line02, [id |-> "x"])>>)),
      MissingValueStat("zip", 3, 5, Absent),
      MissingValueStat("fee", 4, 11, Some(<<Sample(Line10, [id |-> "y"])>>)) }

SchemaResult(field, expected_dtype, actual_dtype, status) ==
    [field |-> field, expected_dtype |-> expected_dtype,
     actual_dtype |-> actual_dtype, status |-> status]

SchemaEntries ==
    { SchemaResult("id", "integer", Some("integer"), "ok"),
      SchemaResult("age", "integer", Absent, "missing"),
      SchemaResult("name", "string", Some("float"), "type_mismatch"),
      SchemaResult("zip", "string", Absent, "type_mismatch") }

PrimaryKeyResult(columns, duplicate_count, null_count, sample_rows) ==
    [columns |-> columns, duplicate_count |-> duplicate_count,
     null_count |-> null_count, sample_rows |-> sample_rows]

PrimaryKeyOptions ==
    { Absent,
      Some(PrimaryKeyResult(<<"id">>, 2, 0,
              Some(<<Sample(Line2, [id |-> "x"]), Sample(Line02, [id |-> "x"])>>))),
      Some(PrimaryKeyResult(<<"id", "k">>, 1, 2,
              Some(<<Sample(Absent, [id |-> "x"]),
                     Sample(Line10, [id |-> "", k |-> "y"]),
                     Sample(Line2b, [id |-> "x", k |-> "y"])>>))),
      Some(PrimaryKeyResult(<<"id", "k">>, 0, 1, Some(<<>>))),
      Some(PrimaryKeyResult(<<"id">>, 0, 0, Some(<<>>))),
      Some(PrimaryKeyResult(<<"id">>, 1, 1, Absent)) }

AuditReport(schema_results, missing_values, rule_results, primary_key_result) ==
    [id |-> "report",
     schema_results |-> schema_results,
     missing_values |-> missing_values,
     rule_results |-> rule_results,
     primary_key_result |-> primary_key_result]

\* The lists of length n over S.
Lists(S, n) == [1..n -> S]

\* ------------------------------------------------------------------------
\* The configuration form: AuditConfigForm({ config, setConfig })
\* ------------------------------------------------------------------------

\* The config the page is constructed with.
InitialConfig ==
    [dataset_name |-> "uploaded_dataset",
     primary_key |-> <<>>,
     schema |-> <<>>,
     rules |-> <<>>]

\* An array slot that no element was ever stored in.
Hole == [hole |-> TRUE]

\* { ...item, ...partial }: the properties of partial over those of item.
\* item is NoElement where the array has no element (spreading undefined
\* contributes no property).
NoElement == [k \in {} |-> TRUE]
SpreadOverReplacing(item, partial) == partial

SpreadOver(item, partial) ==
    [k \in (DOMAIN item) \cup (DOMAIN partial) |->
        IF k \in DOMAIN partial THEN partial[k] ELSE item[k]]

\* list[index], index counted from 0; undefined outside the array.
ElementAt(list, index) ==
    IF index >= 0 /\ index < Len(list) THEN list[index + 1] ELSE NoElement

\* next = [...list]; next[index] = value.  An index at or past the end makes
\* the array longer (the slots skipped stay holes); a negative index names a
\* property that is no element, so the elements stay as they are.
AssignAt(list, index, value) ==
    IF index < 0 THEN list
    ELSE IF index < Len(list) THEN [list EXCEPT ![index + 1] = value]
    ELSE list \o [i \in 1..(index - Len(list)) |-> Hole] \o <<value>>

\* list.filter((_, idx) => idx !== index), idx counting from `from`.
RECURSIVE FilterNotIndex(_, _, _)
FilterNotIndex(list, from, index) ==
    IF list = <<>> THEN <<>>
    ELSE (IF from # index THEN <<Head(list)>> ELSE <<>>)
         \o FilterNotIndex(Tail(list), from + 1, index)

updateSchemaField(prev, index, field) ==
    LET nextSchema ==
            AssignAt(prev.schema, index,
                     SpreadOver(ElementAt(prev.schema, index), field))
    IN  [prev EXCEPT !.schema = nextSchema]

addSchemaFieldNamedByLength(prev) ==
    [prev EXCEPT !.schema =
        prev.schema \o
        <<[name |-> "field_" \o ToString(Len(prev.schema)),
           dtype |-> "string",
           nullable |-> TRUE]>>]

addSchemaField(prev) ==
    [prev EXCEPT !.schema =
        prev.schema \o
        <<[name |-> "field_" \o ToString(Len(prev.schema) + 1),
           dtype |-> "string",
           nullable |-> TRUE]>>]

removeSchemaFieldAfter(prev, index) ==
    [prev EXCEPT !.schema = FilterNotIndex(prev.schema, -1, index)]

removeSchemaField(prev, index) ==
    [prev EXCEPT !.schema = FilterNotIndex(prev.schema, 0, index)]

updateRule(prev, index, rule) ==
    LET nextRules ==
            AssignAt(prev.rules, index,
                     SpreadOver(ElementAt(prev.rules, index), rule))
    IN  [prev EXCEPT !.rules = nextRules]

addRuleEmptyExpression(prev) ==
    [prev EXCEPT !.rules =
        prev.rules \o
        <<[name |-> "Rule " \o ToString(Len(prev.rules) + 1),
           expression |-> "",
           severity |-> "warning",
           description |-> ""]>>]

addRule(prev) ==
    [prev EXCEPT !.rules =
        prev.rules \o
        <<[name |-> "Rule " \o ToString(Len(prev.rules) + 1),
           expression |-> "1 = 1",
           severity |-> "warning",
           description |-> ""]>>]

removeRule(prev, index) ==
    [prev EXCEPT !.rules = FilterNotIndex(prev.rules, 0, index)]

\* The values of JSON: what JSON.stringify writes and JSON.parse reads.
JSONNull == [json |-> "null"]
JSONString(s) == [json |-> "string", value |-> s]
JSONBoolean(b) == [json |-> "boolean", value |-> b]
JSONObject(members) == [json |-> "object", members |-> members]

JSONArrayUnlessEmpty(items) ==
    IF items = <<>> THEN JSONNull ELSE [json |-> "array", items |-> items]

JSONArray(items) == [json |-> "array", items |-> items]

\* JSON.stringify of a string[].
StringifyStrings(list) ==
    JSONArray([i \in 1..Len(list) |-> JSONString(list[i])])

\* JSON.stringify of one property of a SchemaField or a RuleDefinition,
\* by the type of the property.
StringifyProperty(k, v) ==
    CASE k = "nullable" -> JSONBoolean(v)
      [] k = "allowed_values" -> StringifyStrings(v)
      [] OTHER -> JSONString(v)

\* JSON.stringify of one element of schema or rules: its own properties;
\* a slot that holds no element is written as null.
StringifyElement(item) ==
    IF item = Hole THEN JSONNull
    ELSE JSONObject([k \in DOMAIN item |-> StringifyProperty(k, item[k])])

\* JSON.stringify(config): the config part of the run_audit request.
StringifyConfig(c) ==
    JSONObject(
        [dataset_name |-> JSONString(c.dataset_name),
         primary_key |-> StringifyStrings(c.primary_key),
         schema |-> JSONArray([i \in 1..Len(c.schema) |->
                                 StringifyElement(c.schema[i])]),
         rules |-> JSONArray([i \in 1..Len(c.rules) |->
                                StringifyElement(c.rules[i])])])

\* JSON.parse: the value a JSON value stands for.
Null == [null |-> TRUE]
RECURSIVE JSONparse(_)
JSONparse(j) ==
    CASE j.json = "null" -> Null
      [] j.json = "string" -> j.value
      [] j.json = "boolean" -> j.value
      [] j.json = "array" ->
            [i \in 1..Len(j.items) |-> JSONparse(j.items[i])]
      [] j.json = "object" ->
            [k \in DOMAIN j.members |-> JSONparse(j.members[k])]

\* The partial fields and rules the calls are made with.
SchemaPartials == {[name |-> "id"], [nullable |-> FALSE]}
RulePartials == {[severity |-> "error"]}

\* The indices the calls are made with: every position of the list, the
\* one before the first and the one after the last.
IndexInputs(list) == -1..Len(list)

InRange(list, index) == index >= 0 /\ index < Len(list)

\* The call made last: its operation, its index (for an add, the position
\* appended at) and the error it raised.  No handler of the form raises one.
NoCall == [op |-> "none", index |-> 0, call |-> "none", error |-> "none"]
Call(op, index) ==
    [op |-> op, index |-> index, call |-> "none", error |-> "none"]

\* How many schema fields and rules a config holds.
Size(c) == Len(c.schema) + Len(c.rules)

ConfigStart ==
    /\ config = InitialConfig
    /\ lastCall = NoCall
    /\ onlyAddRemove = TRUE

\* setConfig(updater) with the updater of one form handler.  The lists are
\* kept within MaxElements elements together.
CallUpdateSchemaField ==
    \E index \in IndexInputs(config.schema), field \in SchemaPartials :
        /\ Size(updateSchemaField(config, index, field)) <= MaxElements
        /\ config' = updateSchemaField(config, index, field)
        /\ lastCall' = Call("updateSchemaField", index)
        /\ onlyAddRemove' = FALSE

CallAddSchemaField ==
    /\ Size(config) < MaxElements
    /\ config' = addSchemaField(config)
    /\ lastCall' = Call("addSchemaField", Len(config.schema))
    /\ UNCHANGED onlyAddRemove

CallRemoveSchemaField ==
    \E index \in IndexInputs(config.schema) :
        /\ config' = removeSchemaField(config, index)
        /\ lastCall' = Call("removeSchemaField", index)
        /\ UNCHANGED onlyAddRemove

CallUpdateRule ==
    \E index \in IndexInputs(config.rules), rule \in RulePartials :
        /\ Size(updateRule(config, index, rule)) <= MaxElements
        /\ config' = updateRule(config, index, rule)
        /\ lastCall' = Call("updateRule", index)
        /\ onlyAddRemove' = FALSE

CallAddRule ==
    /\ Size(config) < MaxElements
    /\ config' = addRule(config)
    /\ lastCall' = Call("addRule", Len(config.rules))
    /\ onlyAddRemove' = FALSE

CallRemoveRule ==
    \E index \in IndexInputs(config.rules) :
        /\ config' = removeRule(config, index)
        /\ lastCall' = Call("removeRule", index)
        /\ onlyAddRemove' = FALSE

\* ------------------------------------------------------------------------
\* The allowed_values input of a schema field (AuditConfigForm)
\* ------------------------------------------------------------------------

\* The text of the input is a sequence of characters.  The longest text
\* typed, beside the two texts of the examples.
MaxRaw == 4
Characters == {"a", " ", ","}
ExampleTexts ==
    {<<"a", ",", " ", ",", "b">>,
     <<"a", ",", " ", "b", " ", ",", ",", " ", "c">>}

\* value.split(","): the pieces between the commas, empty ones included;
\* a text without a comma is one piece.
RECURSIVE SplitFrom(_, _)
SplitFrom(s, piece) ==
    IF s = <<>> THEN <<piece>>
    ELSE IF Head(s) = "," THEN <<piece>> \o SplitFrom(Tail(s), <<>>)
    ELSE SplitFrom(Tail(s), Append(piece, Head(s)))

split(s) == SplitFrom(s, <<>>)

RECURSIVE SkipWhiteSpaceAtEnd(_)
SkipWhiteSpaceAtEnd(s) ==
    IF Len(s) > 0 /\ s[Len(s)] \in WhiteSpace
    THEN SkipWhiteSpaceAtEnd(SubSeq(s, 1, Len(s) - 1))
    ELSE s

trimStartOnly(s) == SkipWhiteSpace(s)

\* value.trim(): the white space at both ends is dropped.
trim(s) == SkipWhiteSpaceAtEnd(SkipWhiteSpace(s))

\* Boolean(value) of a string: false for the empty string only.
Boolean(s) == s # <<>>

\* .map((value) => value.trim())
RECURSIVE MapTrim(_)
MapTrim(list) ==
    IF list = <<>> THEN <<>>
    ELSE <<trim(Head(list))>> \o MapTrim(Tail(list))

\* .filter(Boolean)
RECURSIVE FilterBoolean(_)
FilterBoolean(list) ==
    IF list = <<>> THEN <<>>
    ELSE IF Boolean(Head(list)) THEN <<Head(list)>> \o FilterBoolean(Tail(list))
    ELSE FilterBoolean(Tail(list))

\* The list the onChange handler of the input passes as allowed_values.
AllowedValuesOf(value) == FilterBoolean(MapTrim(split(value)))

\* onChange of the allowed_values input of the field at index: the user
\* leaves the text value in it (typed or pasted), and the handler calls
\* updateSchemaField with the list made of it.
ChangeAllowedValues ==
    \E index \in 0..(Len(config.schema) - 1) :
        \E value \in ExampleTexts \cup UNION {[1..n -> Characters] : n \in 0..MaxRaw} :
            /\ config' = updateSchemaField(config, index,
                            [allowed_values |-> AllowedValuesOf(value)])
            /\ lastCall' = [op |-> "changeAllowedValues", index |-> index,
                            call |-> "none", error |-> "none",
                            value |-> value]
            /\ onlyAddRemove' = FALSE

\* ------------------------------------------------------------------------
\* The page: Home(), and the history panel ComparisonView it renders
\* ------------------------------------------------------------------------

\* The file input holds no file, or one of the files the user picks.
NoFile == "none"
Files == {"a.csv", "b.csv"}

\* The columns POST /audit/schema infers from a file.
ColumnsOf(f) == IF f = "a.csv" THEN <<"id", "age">> ELSE <<"name">>

\* The reports the Gateway stores, and the one a run produces.
ReportIds == {"r1", "r2"}
AuditedId == "r2"

\* GET /reports/{id}: a stored report never changes.
GatewayReport(id) ==
    [id |-> id,
     summary |-> [issues_found |-> IF id = "r1" THEN 5 ELSE 3]]

\* GET /reports: the history, newest first.
Metadata(id) == [id |-> id]
ListResponses ==
    {<<>>, <<Metadata("r1")>>, <<Metadata("r2"), Metadata("r1")>>}

\* GET /config/template.
TemplateConfig ==
    [dataset_name |-> "customers",
     primary_key |-> <<"id">>,
     schema |-> <<[name |-> "id", dtype |-> "integer", nullable |-> FALSE]>>,
     rules |-> <<>>]

\* How a request fails: a response that is not ok, with its body, or a
\* rejected fetch.
Http(body) == [kind |-> "http", body |-> body]
NetworkError == [kind |-> "network", body |-> "Failed to fetch"]
Failures == {Http(""), NetworkError}

\* fetchJSON: throw new Error(message || "Request failed").
fetchJSONError(failure) ==
    IF failure.kind = "http" /\ failure.body = "" THEN "Request failed"
    ELSE failure.body

\* runAudit: throw new Error(payload || "Audit failed").
runAuditError(failure) ==
    IF failure.kind = "http" /\ failure.body = "" THEN "Audit failed"
    ELSE failure.body

\* deleteReport: throw new Error(await response.text()).
deleteReportError(failure) == failure.body

\* The ids the history panel lists (its buttons and its options).
ListedIds == {reports[i].id : i \in 1..Len(reports)}

\* No comparison is displayed.
NoComparison == [a |-> NoReport, b |-> NoReport]

\* A step of the page: the handler it belongs to, the Gateway call whose
\* response it handles ("none" for the invocation itself) and the message
\* of the error that call ended in.
Event(op, call, error) ==
    [op |-> op, index |-> 0, call |-> call, error |-> error]

\* The step that applies the response of a Gateway call that succeeded:
\* data is the body of the response and prev the value the state held
\* before the step, each under the name of the call.
Response(op, call, data, prev) ==
    [op |-> op, index |-> 0, call |-> call, error |-> "none",
     data |-> [c \in {call} |-> data], prev |-> [c \in {call} |-> prev]]

\* The handlers suspended at an await, with one more, one fewer, or one
\* of them moved on to its next await.
Started(task) == tasks (+) SetToBag({task})
Finished(task) == tasks (-) SetToBag({task})
Resumed(task, next) == (tasks (-) SetToBag({task})) (+) SetToBag({next})

HomeStart ==
    /\ file = NoFile
    /\ currentReport = NoReport
    /\ reports = <<>>
    /\ isRunning = FALSE
    /\ message = ""
    /\ loadingTemplate = TRUE
    /\ availableColumns = <<>>
    /\ compareIds = [a |-> "", b |-> ""]
    /\ comparison = NoComparison
    /\ tasks = SetToBag({[op |-> "fetchTemplate"],
                          [op |-> "refreshReports"]})
    /\ issued = 0

\* fetchTemplate, up to its await.
FetchTemplate ==
    /\ ~loadingTemplate
    /\ issued < MaxCalls
    /\ issued' = issued + 1
    /\ loadingTemplate' = TRUE
    /\ tasks' = Started([op |-> "fetchTemplate"])
    /\ lastCall' = Event("fetchTemplate", "none", "none")
    /\ UNCHANGED <<config, file, currentReport, reports, isRunning, message,
                   availableColumns, compareIds, comparison>>

ConfigAfterTemplateMerged(prev, template) ==
    [template EXCEPT !.schema = template.schema \o prev.schema]

\* What fetchTemplate stores in config for the template GET /config/template
\* returned: setConfig(template).
ConfigAfterTemplate(prev, template) == template

\* fetchTemplate, from its await on.
FetchTemplateSettled ==
    \E t \in BagToSet(tasks) :
        /\ t.op = "fetchTemplate"
        /\ \/ /\ config' = ConfigAfterTemplate(config, TemplateConfig)
              /\ lastCall' = Response(t.op, "fetch_template",
                                      TemplateConfig, config)
              /\ UNCHANGED message
           \/ \E failure \in Failures :
              /\ message' =
                    "Unable to load template: " \o fetchJSONError(failure)
              /\ lastCall' = Event(t.op, "fetch_template",
                                   fetchJSONError(failure))
              /\ UNCHANGED config
        /\ loadingTemplate' = FALSE
        /\ tasks' = Finished(t)
        /\ UNCHANGED <<file, currentReport, reports, isRunning,
                       availableColumns, compareIds, comparison, issued>>

\* refreshReports from its await on: what it stores in reports and in
\* message for the outcome of GET /reports.
ReportsAfterRefresh(data) == data
MessageAfterRefreshFailure(failure) ==
    "Unable to load reports: " \o fetchJSONError(failure)

\* refreshReports called by the mount effect, from its await on.
RefreshReportsSettled ==
    \E t \in BagToSet(tasks) :
        /\ t.op = "refreshReports"
        /\ \/ \E data \in ListResponses :
              /\ reports' = ReportsAfterRefresh(data)
              /\ lastCall' = Response(t.op, "list_reports", data, reports)
              /\ UNCHANGED message
           \/ \E failure \in Failures :
              /\ message' = MessageAfterRefreshFailure(failure)
              /\ lastCall' = Event(t.op, "list_reports",
                                   fetchJSONError(failure))
              /\ UNCHANGED reports
        /\ tasks' = Finished(t)
        /\ UNCHANGED <<config, file, currentReport, isRunning,
                       loadingTemplate, availableColumns, compareIds,
                       comparison, issued>>

\* onChange of the file input, and the effect on [file] that follows the
\* render: without a file the columns are cleared, with one fetchColumns
\* runs up to its await.
SetFile ==
    \E f \in Files \cup {NoFile} :
        /\ f # file
        /\ file' = f
        /\ IF f = NoFile
           THEN /\ availableColumns' = <<>>
                /\ lastCall' = Event("setFile", "none", "none")
                /\ UNCHANGED <<tasks, issued>>
           ELSE /\ issued < MaxCalls
                /\ issued' = issued + 1
                /\ tasks' = Started([op |-> "fetchColumns", file |-> f])
                /\ lastCall' = Event("setFile", "none", "none")
                /\ UNCHANGED availableColumns
        /\ UNCHANGED <<config, currentReport, reports, isRunning, message,
                       loadingTemplate, compareIds, comparison>>

ColumnsAfterFetchCleared(ok, f, current) ==
    IF ok THEN ColumnsOf(f) ELSE <<>>

\* What fetchColumns stores in availableColumns for the outcome of
\* POST /audit/schema: setAvailableColumns runs under response.ok only.
ColumnsAfterFetch(ok, f, current) ==
    IF ok THEN ColumnsOf(f) ELSE current

\* fetchColumns from its await on: the columns of the file the request
\* was made for are stored; a response that is not ok and a rejected fetch
\* store nothing.
FetchColumnsSettled ==
    \E t \in BagToSet(tasks) :
        /\ t.op = "fetchColumns"
        /\ \/ /\ availableColumns' =
                    ColumnsAfterFetch(TRUE, t.file, availableColumns)
              /\ lastCall' = Event(t.op, "infer_schema", "none")
           \/ \E failure \in Failures :
              /\ availableColumns' =
                    ColumnsAfterFetch(FALSE, t.file, availableColumns)
              /\ lastCall' = Event(t.op, "infer_schema", failure.body)
        /\ tasks' = Finished(t)
        /\ UNCHANGED <<config, file, currentReport, reports, isRunning,
                       message, loadingTemplate, compareIds, comparison,
                       issued>>

\* runAudit, up to its await.  The button is disabled while a run is under
\* way; the handler itself checks the file.
RunAudit ==
    /\ ~isRunning
    /\ IF file = NoFile
       THEN /\ message' = "Upload a CSV/Excel file first."
            /\ lastCall' = Event("runAudit", "none", "none")
            /\ UNCHANGED <<isRunning, tasks, issued>>
       ELSE /\ issued < MaxCalls
            /\ issued' = issued + 1
            /\ isRunning' = TRUE
            /\ message' = "Running audit..."
            /\ tasks' = Started([op |-> "runAudit", pc |-> "run_audit"])
            /\ lastCall' = Event("runAudit", "none", "none")
    /\ UNCHANGED <<config, file, currentReport, reports, loadingTemplate,
                   availableColumns, compareIds, comparison>>

IsRunningAfterRunInTry(completed) == ~completed

\* isRunning when runAudit ends, its try block completed or left by an
\* error: finally { setIsRunning(false) }.
IsRunningAfterRun(completed) == FALSE

\* runAudit from the await of POST /audit/run to the await inside
\* refreshReports, or to its end when the run failed.
RunAuditSettled ==
    \E t \in BagToSet(tasks) :
        /\ t.op = "runAudit" /\ t.pc = "run_audit"
        /\ \/ /\ currentReport' = GatewayReport(AuditedId)
              /\ message' = "Audit completed successfully."
              /\ tasks' = Resumed(t, [t EXCEPT !.pc = "list_reports"])
              /\ lastCall' = Event(t.op, "run_audit", "none")
              /\ UNCHANGED isRunning
           \/ \E failure \in Failures :
              /\ message' = "Audit failed: " \o runAuditError(failure)
              /\ isRunning' = IsRunningAfterRun(FALSE)
              /\ tasks' = Finished(t)
              /\ lastCall' = Event(t.op, "run_audit",
                                   runAuditError(failure))
              /\ UNCHANGED currentReport
        /\ UNCHANGED <<config, file, reports, loadingTemplate,
                       availableColumns, compareIds, comparison, issued>>

\* runAudit from the await inside refreshReports to its end.
RunAuditRefreshed ==
    \E t \in BagToSet(tasks) :
        /\ t.op = "runAudit" /\ t.pc = "list_reports"
        /\ \/ \E data \in ListResponses :
              /\ reports' = ReportsAfterRefresh(data)
              /\ lastCall' = Response(t.op, "list_reports", data, reports)
              /\ UNCHANGED message
           \/ \E failure \in Failures :
              /\ message' = MessageAfterRefreshFailure(failure)
              /\ lastCall' = Event(t.op, "list_reports",
                                   fetchJSONError(failure))
              /\ UNCHANGED reports
        /\ isRunning' = IsRunningAfterRun(TRUE)
        /\ tasks' = Finished(t)
        /\ UNCHANGED <<config, file, currentReport, loadingTemplate,
                       availableColumns, compareIds, comparison, issued>>

\* loadReport(reportId), up to its await: the Load button of a listed
\* report.  The code numbers no request; request is the place of the call
\* among the calls of the session, kept to tell the order of the requests.
LoadReport ==
    \E reportId \in ListedIds :
        /\ issued < MaxCalls
        /\ issued' = issued + 1
        /\ tasks' = Started([op |-> "loadReport", id |-> reportId,
                              request |-> issued + 1])
        /\ lastCall' = Event("loadReport", "none", "none")
        /\ UNCHANGED <<config, file, currentReport, reports, isRunning,
                       message, loadingTemplate, availableColumns,
                       compareIds, comparison>>

ReportAfterLoadCleared(ok, id, current) ==
    IF ok THEN GatewayReport(id) ELSE NoReport

\* What loadReport stores in report for the outcome of GET /reports/{id}.
ReportAfterLoad(ok, id, current) ==
    IF ok THEN GatewayReport(id) ELSE current

\* loadReport, from its await on.
LoadReportSettled ==
    \E t \in BagToSet(tasks) :
        /\ t.op = "loadReport"
        /\ \/ /\ currentReport' = ReportAfterLoad(TRUE, t.id, currentReport)
              /\ lastCall' = [Response(t.op, "get_report",
                                       GatewayReport(t.id), currentReport)
                                 EXCEPT !.index = t.request]
              /\ UNCHANGED message
           \/ \E failure \in Failures :
              /\ currentReport' =
                    ReportAfterLoad(FALSE, t.id, currentReport)
              /\ message' =
                    "Unable to load report: " \o fetchJSONError(failure)
              /\ lastCall' = Event(t.op, "get_report",
                                   fetchJSONError(failure))
        /\ tasks' = Finished(t)
        /\ UNCHANGED <<config, file, reports, isRunning, loadingTemplate,
                       availableColumns, compareIds, comparison, issued>>

\* deleteReport(reportId), up to its await: the Delete button of a listed
\* report and the answer to window.confirm.  The handler keeps the report
\* of the render it was created in.
DeleteReport ==
    \E reportId \in ListedIds, confirmed \in BOOLEAN :
        /\ IF confirmed
           THEN /\ issued < MaxCalls
                /\ issued' = issued + 1
                /\ tasks' = Started([op |-> "deleteReport",
                        id |-> reportId, pc |-> "delete_report",
                        report |-> currentReport])
                /\ lastCall' = Event("deleteReport", "none", "none")
           ELSE /\ lastCall' = Event("deleteReport", "none", "none")
                /\ UNCHANGED <<tasks, issued>>
        /\ UNCHANGED <<config, file, currentReport, reports, isRunning,
                       message, loadingTemplate, availableColumns,
                       compareIds, comparison>>

\* deleteReport from the await of DELETE /reports/{id} to the await inside
\* refreshReports, or to its end when the delete failed.
DeleteReportSettled ==
    \E t \in BagToSet(tasks) :
        /\ t.op = "deleteReport" /\ t.pc = "delete_report"
        /\ \/ /\ currentReport' =
                    IF t.report.id = t.id THEN NoReport ELSE currentReport
              /\ tasks' = Resumed(t, [t EXCEPT !.pc = "list_reports"])
              /\ lastCall' = Event(t.op, "delete_report", "none")
              /\ UNCHANGED message
           \/ \E failure \in Failures :
              /\ message' =
                    "Unable to delete report: " \o deleteReportError(failure)
              /\ tasks' = Finished(t)
              /\ lastCall' = Event(t.op, "delete_report",
                                   deleteReportError(failure))
              /\ UNCHANGED currentReport
        /\ UNCHANGED <<config, file, reports, isRunning, loadingTemplate,
                       availableColumns, compareIds, comparison, issued>>

\* The message deleteReport leaves once refreshReports has returned:
\* refreshed is what refreshReports left.
MessageAfterDelete(refreshed) == "Report deleted."

\* deleteReport from the await inside refreshReports to its end.
DeleteReportRefreshed ==
    \E t \in BagToSet(tasks) :
        /\ t.op = "deleteReport" /\ t.pc = "list_reports"
        /\ \/ \E data \in ListResponses :
              /\ reports' = ReportsAfterRefresh(data)
              /\ message' = MessageAfterDelete(message)
              /\ lastCall' = Response(t.op, "list_reports", data, reports)
           \/ \E failure \in Failures :
              /\ message' =
                    MessageAfterDelete(MessageAfterRefreshFailure(failure))
              /\ lastCall' = Event(t.op, "list_reports",
                                   fetchJSONError(failure))
              /\ UNCHANGED reports
        /\ tasks' = Finished(t)
        /\ UNCHANGED <<config, file, currentReport, isRunning,
                       loadingTemplate, availableColumns, compareIds,
                       comparison, issued>>

\* onChange of the two selects: event.target.value || undefined, the
\* value being "" or the id of a listed report.
SelectCompareIds ==
    \E side \in {"a", "b"}, value \in ListedIds \cup {""} :
        /\ compareIds[side] # value
        /\ compareIds' = [compareIds EXCEPT ![side] = value]
        /\ lastCall' = Event("setCompareIds", "none", "none")
        /\ UNCHANGED <<config, file, currentReport, reports, isRunning,
                       message, loadingTemplate, availableColumns,
                       comparison, tasks, issued>>

CompareRejectedWhenUnset(ids) == ids.a = "" \/ ids.b = ""

\* !compareIds.a || !compareIds.b || compareIds.a === compareIds.b
CompareRejected(ids) == ids.a = "" \/ ids.b = "" \/ ids.a = ids.b

\* handleCompare, up to its await: both fetchJSON calls are made and
\* Promise.all waits for them.
HandleCompare ==
    /\ IF CompareRejected(compareIds)
       THEN /\ message' = "Choose two different reports to compare."
            /\ lastCall' = Event("handleCompare", "none", "none")
            /\ UNCHANGED <<tasks, issued>>
       ELSE /\ issued < MaxCalls
            /\ issued' = issued + 1
            /\ tasks' = Started([op |-> "handleCompare",
                    ids |-> compareIds,
                    got |-> [a |-> NoReport, b |-> NoReport]])
            /\ lastCall' = Event("handleCompare", "none", "none")
            /\ UNCHANGED message
    /\ UNCHANGED <<config, file, currentReport, reports, isRunning,
                   loadingTemplate, availableColumns, compareIds, comparison>>

\* setComparison({ a: reportA, b: reportB }) with the array Promise.all
\* resolved with.
ComparisonOf(got) == [a |-> got.a, b |-> got.b]

PromiseAnyFulfilled(got) == got.a # NoReport \/ got.b # NoReport

\* Promise.all is fulfilled once both of its promises are.
PromiseAllFulfilled(got) == got.a # NoReport /\ got.b # NoReport

\* One of the two fetchJSON calls of handleCompare settles.  Promise.all
\* resolves when both are fulfilled, and rejects with the first rejection
\* (what the other call does afterwards is ignored).
HandleCompareSettled ==
    \E t \in BagToSet(tasks), side \in {"a", "b"} :
        /\ t.op = "handleCompare"
        /\ t.got[side] = NoReport
        /\ \/ LET got == [t.got EXCEPT ![side] = GatewayReport(t.ids[side])]
              IN  /\ IF PromiseAllFulfilled(got)
                     THEN /\ comparison' = ComparisonOf(got)
                          /\ tasks' = Finished(t)
                     ELSE /\ tasks' =
                                Resumed(t, [t EXCEPT !.got = got])
                          /\ UNCHANGED comparison
                  /\ lastCall' = Event(t.op, "get_report", "none")
                  /\ UNCHANGED message
           \/ \E failure \in Failures :
              /\ message' = "Comparison failed: " \o fetchJSONError(failure)
              /\ tasks' = Finished(t)
              /\ lastCall' = Event(t.op, "get_report",
                                   fetchJSONError(failure))
              /\ UNCHANGED comparison
        /\ UNCHANGED <<config, file, currentReport, reports, isRunning,
                       loadingTemplate, availableColumns, compareIds, issued>>

DeltaAMinusB(c) == c.a.summary.issues_found - c.b.summary.issues_found

\* The delta the panel renders for a comparison.
Delta(c) == c.b.summary.issues_found - c.a.summary.issues_found

\* ------------------------------------------------------------------------
\* The view: AuditReportView({ report })
\* ------------------------------------------------------------------------

\* The view is mounted with report = null; both memos hold [].
ReportInit ==
    /\ report = NoReport
    /\ pc = "rendered"
    /\ allIssues = <<>>
    /\ issueIndicators = <<>>
    /\ ConfigStart
    /\ HomeStart

\* The parent passes a report: the view renders again.  The report is any
\* choice of lists over the entries above whose lengths add up to MaxEntries
\* at most, with any primary-key option.
ShowReport ==
    /\ pc \in {"rendered", "crashed"}
    /\ report = NoReport
    /\ \E a \in 0..MaxEntries : \E b \in 0..(MaxEntries - a) :
       \E c \in 0..(MaxEntries - a - b) :
       \E rr \in Lists(RuleEntries, a), mm \in Lists(MissingEntries, b),
          ss \in Lists(SchemaEntries, c), pk \in PrimaryKeyOptions :
            report' = AuditReport(ss, mm, rr, pk)
    /\ pc' = "allIssues"
    /\ UNCHANGED <<allIssues, issueIndicators>>

\* The parent passes null (no report selected, or the report was deleted).
ClearReport ==
    /\ pc \in {"rendered", "crashed"}
    /\ report # NoReport
    /\ report' = NoReport
    /\ pc' = "allIssues"
    /\ UNCHANGED <<allIssues, issueIndicators>>

\* useMemo(() => { ... }, [report]) for allIssues.  An exception thrown by
\* the callback aborts the render.
ComputeAllIssues ==
    /\ pc = "allIssues"
    /\ IF report # NoReport /\ PKIssuesThrow(report)
       THEN /\ pc' = "crashed"
            /\ UNCHANGED allIssues
       ELSE /\ allIssues' = DeriveIssueLog(report)
            /\ pc' = "issueIndicators"
    /\ UNCHANGED <<report, issueIndicators>>

\* useMemo(() => { ... }, [report]) for issueIndicators.
ComputeIssueIndicators ==
    /\ pc = "issueIndicators"
    /\ issueIndicators' = DeriveIndicators(report)
    /\ pc' = "rendered"
    /\ UNCHANGED <<report, allIssues>>

ReportNext ==
    \/ ShowReport /\ UNCHANGED <<configVars, homeVars>>
    \/ ClearReport /\ UNCHANGED <<configVars, homeVars>>
    \/ ComputeAllIssues /\ UNCHANGED <<configVars, homeVars>>
    \/ ComputeIssueIndicators /\ UNCHANGED <<configVars, homeVars>>

SpecReport == ReportInit /\ [][ReportNext]_vars

\* The form alone: the page is constructed and the user edits the config.
ConfigNext ==
    \/ CallUpdateSchemaField /\ UNCHANGED <<reportVars, homeVars>>
    \/ CallAddSchemaField /\ UNCHANGED <<reportVars, homeVars>>
    \/ CallRemoveSchemaField /\ UNCHANGED <<reportVars, homeVars>>
    \/ CallUpdateRule /\ UNCHANGED <<reportVars, homeVars>>
    \/ CallAddRule /\ UNCHANGED <<reportVars, homeVars>>
    \/ CallRemoveRule /\ UNCHANGED <<reportVars, homeVars>>

SpecConfig == ReportInit /\ [][ConfigNext]_vars

\* The page: the handlers of Home, each from one await to the next.
HomeNext ==
    \/ FetchTemplate /\ UNCHANGED <<reportVars, onlyAddRemove>>
    \/ FetchTemplateSettled /\ UNCHANGED <<reportVars, onlyAddRemove>>
    \/ RefreshReportsSettled /\ UNCHANGED <<reportVars, onlyAddRemove>>
    \/ SetFile /\ UNCHANGED <<reportVars, onlyAddRemove>>
    \/ FetchColumnsSettled /\ UNCHANGED <<reportVars, onlyAddRemove>>
    \/ RunAudit /\ UNCHANGED <<reportVars, onlyAddRemove>>
    \/ RunAuditSettled /\ UNCHANGED <<reportVars, onlyAddRemove>>
    \/ RunAuditRefreshed /\ UNCHANGED <<reportVars, onlyAddRemove>>
    \/ LoadReport /\ UNCHANGED <<reportVars, onlyAddRemove>>
    \/ LoadReportSettled /\ UNCHANGED <<reportVars, onlyAddRemove>>
    \/ DeleteReport /\ UNCHANGED <<reportVars, onlyAddRemove>>
    \/ DeleteReportSettled /\ UNCHANGED <<reportVars, onlyAddRemove>>
    \/ DeleteReportRefreshed /\ UNCHANGED <<reportVars, onlyAddRemove>>

SpecHome == ReportInit /\ [][HomeNext]_vars

\* The history panel: the page is mounted (its two requests settle) and
\* the user selects and compares reports.
CompareNext ==
    \/ FetchTemplateSettled /\ UNCHANGED <<reportVars, onlyAddRemove>>
    \/ RefreshReportsSettled /\ UNCHANGED <<reportVars, onlyAddRemove>>
    \/ SelectCompareIds /\ UNCHANGED <<reportVars, onlyAddRemove>>
    \/ HandleCompare /\ UNCHANGED <<reportVars, onlyAddRemove>>
    \/ HandleCompareSettled /\ UNCHANGED <<reportVars, onlyAddRemove>>

SpecComparison == ReportInit /\ [][CompareNext]_vars

\* The allowed_values input: the template is loaded (it has one field) and
\* the user edits the allowed values of that field.
AllowedValuesNext ==
    \/ FetchTemplateSettled /\ UNCHANGED <<reportVars, onlyAddRemove>>
    \/ ChangeAllowedValues /\ UNCHANGED <<reportVars, homeVars>>

SpecAllowedValues == ReportInit /\ [][AllowedValuesNext]_vars

\* The page and the form together: the template requested at mount is
\* outstanding, and arrives, while the user
\* adds and removes schema fields and updates rules, and reports are listed
\* and loaded.
TemplateNext ==
    \/ FetchTemplateSettled /\ UNCHANGED <<reportVars, onlyAddRemove>>
    \/ CallAddSchemaField /\ UNCHANGED <<reportVars, homeVars>>
    \/ CallRemoveSchemaField /\ UNCHANGED <<reportVars, homeVars>>
    \/ CallUpdateRule /\ UNCHANGED <<reportVars, homeVars>>
    \/ RefreshReportsSettled /\ UNCHANGED <<reportVars, onlyAddRemove>>
    \/ LoadReport /\ UNCHANGED <<reportVars, onlyAddRemove>>
    \/ LoadReportSettled /\ UNCHANGED <<reportVars, onlyAddRemove>>

SpecTemplate == ReportInit /\ [][TemplateNext]_vars

\* Runs of the audit: the page is mounted, the user selects files, loads
\* the template again and runs audits.  Every request the page has made
\* is answered or rejected in the end (a fetch settles with a response or
\* with an error) and the handler awaiting it is then resumed by the event
\* loop, so the steps that resume fetchTemplate and runAudit are weakly
\* fair.
RunNext ==
    \/ FetchTemplate /\ UNCHANGED <<reportVars, onlyAddRemove>>
    \/ FetchTemplateSettled /\ UNCHANGED <<reportVars, onlyAddRemove>>
    \/ RefreshReportsSettled /\ UNCHANGED <<reportVars, onlyAddRemove>>
    \/ SetFile /\ UNCHANGED <<reportVars, onlyAddRemove>>
    \/ FetchColumnsSettled /\ UNCHANGED <<reportVars, onlyAddRemove>>
    \/ RunAudit /\ UNCHANGED <<reportVars, onlyAddRemove>>
    \/ RunAuditSettled /\ UNCHANGED <<reportVars, onlyAddRemove>>
    \/ RunAuditRefreshed /\ UNCHANGED <<reportVars, onlyAddRemove>>

SpecRunFair ==
    /\ ReportInit
    /\ [][RunNext]_vars
    /\ WF_vars(FetchTemplateSettled /\ UNCHANGED <<reportVars, onlyAddRemove>>)
    /\ WF_vars(RunAuditSettled /\ UNCHANGED <<reportVars, onlyAddRemove>>)
    /\ WF_vars(RunAuditRefreshed /\ UNCHANGED <<reportVars, onlyAddRemove>>)

\* ------------------------------------------------------------------------
\* Helpers of the properties
\* ------------------------------------------------------------------------

\* The issue log for the current report has been computed.
IssueLogReady == report # NoReport /\ pc \in {"issueIndicators", "rendered"}

\* Both memos hold the values derived from the current report.
Rendered == report # NoReport /\ pc = "rendered"

Range(xs) == {xs[i] : i \in 1..Len(xs)}

\* How many positions of xs hold v.
Count(xs, v) == Cardinality({i \in 1..Len(xs) : xs[i] = v})

Sign(n) == IF n < 0 THEN -1 ELSE IF n > 0 THEN 1 ELSE 0

DecimalDigits == {"0", "1", "2", "3", "4", "5", "6", "7", "8", "9"}

\* The whole string is a base-10 integer: an optional sign and then digits
\* only, at least one.
WholeInteger(s) ==
    LET d == IF Len(s) > 0 /\ s[1] \in {"-", "+"} THEN Tail(s) ELSE s
    IN  /\ Len(d) > 0
        /\ \A i \in 1..Len(d) : d[i] \in DecimalDigits

WholeIntegerValue(s) ==
    LET neg == s[1] = "-"
        d   == IF s[1] \in {"-", "+"} THEN Tail(s) ELSE s
        n   == DigitsToNumber(d, 10, 0)
    IN  IF neg THEN 0 - n ELSE n

\* The order the specification gives two rowIds: numeric when both are
\* base-10 integers, lexicographic otherwise.
SpecCompare(x, y) ==
    IF WholeInteger(x) /\ WholeInteger(y)
    THEN Sign(WholeIntegerValue(x) - WholeIntegerValue(y))
    ELSE Sign(localeCompare(x, y))

\* The comparator orders the issues of the current report consistently
\* (a <= b or b <= a, and <= is transitive), so that every stable sort
\* gives the list ArraySort gives.
ComparatorConsistent ==
    report # NoReport /\ ~PKIssuesThrow(report) =>
        LET I == Range(EmittedIssues(report))
        IN  /\ \A a, b \in I :
                  Sign(compareIssues(a, b)) = 0 - Sign(compareIssues(b, a))
            /\ \A a, b, c \in I :
                  compareIssues(a, b) <= 0 /\ compareIssues(b, c) <= 0
                      => compareIssues(a, c) <= 0

\* ------------------------------------------------------------------------
\* Properties
\* ------------------------------------------------------------------------

\* C1: in the issue log every adjacent pair is in order: numerically when
\* both rowIds are integers, lexicographically otherwise.
C1_AdjacentPairsOrdered ==
    IssueLogReady =>
        \A i \in 1..(Len(allIssues) - 1) :
            SpecCompare(allIssues[i].rowId, allIssues[i + 1].rowId) <= 0

\* The same adjacency with "parses as an integer" read the way parseInt
\* reads it (a numeric prefix is enough): this is what the sort delivers.
AdjacentPairsOrderedByParseInt ==
    IssueLogReady =>
        \A i \in 1..(Len(allIssues) - 1) :
            compareIssues(allIssues[i], allIssues[i + 1]) <= 0

\* Two rowIds compare equal: the same integer, or the same string.
RowIdsTie(x, y) == SpecCompare(x, y) = 0

\* C2: the sort is stable and loses nothing: the issue log is a permutation
\* of the emitted issues, and the issues whose rowIds compare equal (by the
\* specified order and by the comparator) keep their emission order.
C2_SortStablePermutation ==
    IssueLogReady =>
        LET emitted == EmittedIssues(report)
        IN  /\ Len(allIssues) = Len(emitted)
            /\ \A v \in Range(emitted) \cup Range(allIssues) :
                  Count(allIssues, v) = Count(emitted, v)
            /\ \A x \in Range(emitted) :
                  LET Ties(y) == RowIdsTie(x.rowId, y.rowId)
                      Same(y) == compareIssues(x, y) = 0
                  IN  /\ SelectSeq(allIssues, Ties) = SelectSeq(emitted, Ties)
                      /\ SelectSeq(allIssues, Same) = SelectSeq(emitted, Same)

\* C2 witness: the sort moved an issue, and two different issues with
\* equal rowIds stand in the log.
C2_Witness ==
    /\ IssueLogReady
    /\ allIssues # EmittedIssues(report)
    /\ \E i, j \in 1..Len(allIssues) :
          /\ i < j
          /\ allIssues[i] # allIssues[j]
          /\ RowIdsTie(allIssues[i].rowId, allIssues[j].rowId)

\* C3: the comparator orders two rowIds numerically only when both whole
\* strings are base-10 integers, and lexicographically in every other case.
C3_ComparatorWholeIntegers ==
    IssueLogReady =>
        \A a, b \in Range(EmittedIssues(report)) :
            Sign(compareIssues(a, b)) = SpecCompare(a.rowId, b.rowId)

\* C4: neither derivation fails on a partially populated report: the
\* render never ends in an exception.
C4_NeverFails == pc # "crashed"

\* How many sample rows an entry carries (none when the property is absent).
SampleCount(entry) ==
    IF entry.sample_rows.present THEN Len(entry.sample_rows.val) ELSE 0

\* The (rule, sample) positions of the failed rules of the current report.
FailedRuleSamples ==
    UNION { {<<k, j>> : j \in 1..SampleCount(report.rule_results[k])} :
            k \in {k \in 1..Len(report.rule_results) :
                       ~report.rule_results[k].passed} }

\* The issue C5 expects for the sample at position p.
C5_Expected(p) ==
    LET rule   == report.rule_results[p[1]]
        sample == rule.sample_rows.val[p[2]]
    IN  [rowId        |-> IF sample.line.present THEN sample.line.val
                          ELSE <<"n", "/", "a">>,
         value        |-> [text |-> "JSON", sample |-> Some(sample)],
         errorType    |-> "Rule Failed",
         ruleOrColumn |-> rule.name,
         severity     |-> rule.severity]

\* C5: the 'Rule Failed' issues of the log are, one for one, the sample
\* rows of the failed rules, each with the rule's name and severity and the
\* sample's __line__ (or "n/a") as rowId; passed rules give none.
C5_RuleFailedIssues ==
    IssueLogReady =>
        LET expected == {C5_Expected(p) : p \in FailedRuleSamples}
            logged   == {v \in Range(allIssues) : v.errorType = "Rule Failed"}
        IN  \A v \in expected \cup logged :
                Count(allIssues, v)
                    = Cardinality({p \in FailedRuleSamples : C5_Expected(p) = v})

\* C5 witness: a failed rule with a sample lacking __line__ and a passed
\* rule with sample rows, in one report whose log has been derived.
C5_Witness ==
    /\ IssueLogReady
    /\ \E p \in FailedRuleSamples :
          ~report.rule_results[p[1]].sample_rows.val[p[2]].line.present
    /\ \E k \in 1..Len(report.rule_results) :
          /\ report.rule_results[k].passed
          /\ SampleCount(report.rule_results[k]) > 0
    /\ \E i \in 1..Len(allIssues) :
          allIssues[i].errorType = "Rule Failed" /\ allIssues[i].rowId = NA

\* The issues of the log that come from the missing-value entry of a column.
MissingIssuesOf(column) ==
    SelectSeq(allIssues,
              LAMBDA v : v.errorType = "Missing Value" /\ v.ruleOrColumn = column)

\* The indicators that come from the missing-value entry of a column.
MissingIndicatorsOf(mv) ==
    SelectSeq(issueIndicators,
              LAMBDA d : /\ d.label = "Missing data"
                         /\ d.detail = mv.column \o ": "
                                \o ToString(mv.missing_pct) \o ".0%")

\* C6: a missing-value entry with missing_count > 0 gets the same severity
\* in the issue log and in the indicators, "error" above 10 percent and
\* "warning" otherwise; an entry with missing_count = 0 gets neither an
\* issue nor an indicator.
C6_MissingSeverityAgrees ==
    Rendered =>
        \A m \in 1..Len(report.missing_values) :
            LET mv  == report.missing_values[m]
                sev == IF mv.missing_pct > 10 THEN "error" ELSE "warning"
                iss == MissingIssuesOf(mv.column)
                ind == MissingIndicatorsOf(mv)
            IN  IF mv.missing_count > 0
                THEN /\ \A i \in 1..Len(iss) : iss[i].severity = sev
                     /\ Len(ind) > 0
                     /\ \A i \in 1..Len(ind) : ind[i].severity = sev
                     /\ SampleCount(mv) > 0 => Len(iss) > 0
                ELSE Len(iss) = 0 /\ Len(ind) = 0

\* C6 witness: entries at exactly 10 percent and above it, both with sample
\* rows, and an entry with missing_count = 0 that carries sample rows.
C6_Witness ==
    /\ Rendered
    /\ \E m \in 1..Len(report.missing_values) :
          LET mv == report.missing_values[m]
          IN  mv.missing_pct = 10 /\ mv.missing_count > 0 /\ SampleCount(mv) > 0
    /\ \E m \in 1..Len(report.missing_values) :
          LET mv == report.missing_values[m]
          IN  mv.missing_pct > 10 /\ mv.missing_count > 0 /\ SampleCount(mv) > 0
    /\ \E m \in 1..Len(report.missing_values) :
          LET mv == report.missing_values[m]
          IN  mv.missing_count = 0 /\ SampleCount(mv) > 0

\* C7: a failed rule without sample rows (absent or empty) has no entry in
\* the issue log and one 'Rule failed' indicator.
C7_FailedRuleWithoutSamples ==
    Rendered =>
        \A k \in 1..Len(report.rule_results) :
            LET rule == report.rule_results[k]
                \* the entries of rule_results that are this very rule
                same == {j \in 1..Len(report.rule_results) :
                            report.rule_results[j] = rule}
                ind  == SelectSeq(issueIndicators,
                            LAMBDA d : /\ d.label = "Rule failed"
                                       /\ d.detail = rule.name \o " ("
                                            \o ToString(rule.failing_rows)
                                            \o " rows)"
                                       /\ d.severity = rule.severity)
                iss  == SelectSeq(allIssues,
                            LAMBDA v : /\ v.errorType = "Rule Failed"
                                       /\ v.ruleOrColumn = rule.name)
            IN  ~rule.passed /\ SampleCount(rule) = 0
                    => Len(iss) = 0 /\ Len(ind) = Cardinality(same)

\* C7 witness: failed rules with sample_rows absent and with sample_rows
\* empty, rendered.
C7_Witness ==
    /\ Rendered
    /\ \E k \in 1..Len(report.rule_results) :
          /\ ~report.rule_results[k].passed
          /\ ~report.rule_results[k].sample_rows.present
    /\ \E k \in 1..Len(report.rule_results) :
          /\ ~report.rule_results[k].passed
          /\ report.rule_results[k].sample_rows = Some(<<>>)
    /\ Len(issueIndicators) >= 2

\* The report has no missing values, no rule results and no primary key.
OnlySchemaResults ==
    /\ report.missing_values = <<>>
    /\ report.rule_results = <<>>
    /\ ~report.primary_key_result.present

OffendingSchema(item) == item.status \in {"missing", "type_mismatch"}

\* C8 as stated: such a report yields an empty issue log and an empty
\* indicator list, whatever its schema_results contain.
C8_EmptyLogAndIndicators ==
    Rendered /\ OnlySchemaResults => allIssues = <<>> /\ issueIndicators = <<>>

\* C8 amended: such a report yields an empty issue log, and one indicator
\* for every schema result whose status is missing or type_mismatch; the
\* indicator list is empty exactly when every schema result is ok.
C8_EmptyLogSchemaIndicators ==
    Rendered /\ OnlySchemaResults =>
        /\ allIssues = <<>>
        /\ Len(issueIndicators)
              = Len(SelectSeq(report.schema_results, OffendingSchema))
        /\ \A i \in 1..Len(issueIndicators) :
              issueIndicators[i].label \in {"Missing column", "Type mismatch"}

\* C8 witness: such a report with a missing column and a type mismatch.
C8_Witness ==
    /\ Rendered
    /\ OnlySchemaResults
    /\ \E i \in 1..Len(report.schema_results) :
          report.schema_results[i].status = "missing"
    /\ \E i \in 1..Len(report.schema_results) :
          report.schema_results[i].status = "type_mismatch"

\* The issue C9 expects for the j-th sample row of the primary-key result.
C9_Expected(j) ==
    LET pk     == report.primary_key_result.val
        sample == pk.sample_rows.val[j]
        empty  == \E c \in Range(pk.columns) :
                      c \notin DOMAIN sample.cells \/ sample.cells[c] = ""
    IN  [rowId        |-> IF sample.line.present THEN sample.line.val
                          ELSE <<"n", "/", "a">>,
         value        |-> [text |-> "JSON", sample |-> Some(sample)],
         errorType    |-> IF empty THEN "PK Null" ELSE "PK Duplicate",
         ruleOrColumn |-> IF Len(pk.columns) = 1 THEN pk.columns[1]
                          ELSE pk.columns[1] \o ", " \o pk.columns[2],
         severity     |-> "error"]

\* C9: the primary-key issues of the log are, one for one, the sample rows
\* of primary_key_result: severity "error", the joined columns as
\* ruleOrColumn, "PK Null" when a primary-key column is absent or empty in
\* the row and "PK Duplicate" otherwise; without primary_key_result there
\* are none.
C9_PrimaryKeyIssues ==
    IssueLogReady =>
        LET rows     == IF report.primary_key_result.present
                        THEN 1..Len(report.primary_key_result.val.sample_rows.val)
                        ELSE {}
            expected == {C9_Expected(j) : j \in rows}
            logged   == {v \in Range(allIssues) :
                            v.errorType \in {"PK Null", "PK Duplicate"}}
        IN  \A v \in expected \cup logged :
                Count(allIssues, v) = Cardinality({j \in rows : C9_Expected(j) = v})

\* C9 witness: a log with a PK Null issue for an absent column, one for an
\* empty column, and a PK Duplicate issue.
C9_Witness ==
    /\ IssueLogReady
    /\ report.primary_key_result.present
    /\ \E i, j, k \in 1..Len(allIssues) :
          /\ allIssues[i].errorType = "PK Duplicate"
          /\ allIssues[j].errorType = "PK Null"
          /\ allIssues[k].errorType = "PK Null"
          /\ "k" \notin DOMAIN allIssues[j].value.sample.val.cells
          /\ "id" \in DOMAIN allIssues[k].value.sample.val.cells
          /\ allIssues[k].value.sample.val.cells["id"] = ""

\* The group an indicator belongs to, by its label.
IndicatorGroup(d) ==
    CASE d.label \in {"Missing column", "Type mismatch"} -> 1
      [] d.label = "Missing data" -> 2
      [] d.label = "Rule failed" -> 3
      [] d.label = "PK duplicate" -> 4
      [] d.label = "PK null" -> 5
      [] OTHER -> 0

\* What C10 expects of the indicator list: label and subject, in order.
C10_Expected ==
    LET schema  == SelectSeq(report.schema_results, OffendingSchema)
        missing == SelectSeq(report.missing_values,
                             LAMBDA mv : mv.missing_count > 0)
        failed  == SelectSeq(report.rule_results, LAMBDA r : ~r.passed)
        pk      == report.primary_key_result
    IN  [i \in 1..Len(schema) |->
            <<IF schema[i].status = "missing" THEN "Missing column"
              ELSE "Type mismatch", schema[i].field>>]
        \o [i \in 1..Len(missing) |-> <<"Missing data", missing[i].column>>]
        \o [i \in 1..Len(failed) |-> <<"Rule failed", failed[i].name>>]
        \o (IF pk.present /\ pk.val.duplicate_count > 0
            THEN <<<<"PK duplicate", ToString(pk.val.duplicate_count)>>>>
            ELSE <<>>)
        \o (IF pk.present /\ pk.val.null_count > 0
            THEN <<<<"PK null", ToString(pk.val.null_count)>>>>
            ELSE <<>>)

\* The subject an indicator's detail starts with.
IndicatorSubject(d, subject) ==
    \/ d.detail = subject
    \/ \E mv \in MissingEntries :
          mv.column = subject
          /\ d.detail = subject \o ": " \o ToString(mv.missing_pct) \o ".0%"
    \/ \E r \in RuleEntries :
          r.name = subject
          /\ d.detail = subject \o " (" \o ToString(r.failing_rows) \o " rows)"
    \/ \E s \in SchemaEntries :
          s.field = subject
          /\ d.detail = subject \o ": expected " \o s.expected_dtype \o ", found "
                \o (IF s.actual_dtype.present THEN s.actual_dtype.val ELSE "n/a")
    \/ d.detail = subject \o " rows"

\* C10: the indicators come in the group order schema, missing values,
\* rules, PK duplicate, PK null, in report order within a group, one per
\* offending entry, none dropped or merged.
C10_IndicatorOrderAndCount ==
    Rendered =>
        /\ Len(issueIndicators) = Len(C10_Expected)
        /\ \A i \in 1..Len(issueIndicators) :
              /\ i <= Len(C10_Expected)
              /\ issueIndicators[i].label = C10_Expected[i][1]
              /\ IndicatorSubject(issueIndicators[i], C10_Expected[i][2])
        /\ \A i, j \in 1..Len(issueIndicators) :
              i < j => IndicatorGroup(issueIndicators[i])
                          <= IndicatorGroup(issueIndicators[j])

\* C10 witness: an offending entry given twice yields its indicator twice,
\* next to indicators of other groups, PK duplicate and PK null among them.
C10_Witness ==
    /\ Rendered
    /\ \E i, j \in 1..Len(issueIndicators) :
          i < j /\ issueIndicators[i] = issueIndicators[j]
    /\ {4, 5} \subseteq
          {IndicatorGroup(issueIndicators[i]) : i \in 1..Len(issueIndicators)}
    /\ Cardinality({IndicatorGroup(issueIndicators[i]) :
                        i \in 1..Len(issueIndicators)}) >= 4

\* ------------------------------------------------------------------------
\* The configuration form
\* ------------------------------------------------------------------------

\* C17: updateSchemaField(index, partial) and updateRule(index, partial)
\* with an index outside 0..length-1 raise IndexOutOfRange and leave the
\* config as it was (no element is added, the list does not grow).
C17_UpdateOutOfRangeRejected ==
    [][/\ (/\ lastCall'.op = "updateSchemaField"
           /\ ~InRange(config.schema, lastCall'.index))
          => (lastCall'.error = "IndexOutOfRange" /\ config' = config)
       /\ (/\ lastCall'.op = "updateRule"
           /\ ~InRange(config.rules, lastCall'.index))
          => (lastCall'.error = "IndexOutOfRange" /\ config' = config)]_vars

\* C18: removeSchemaField(index) and removeRule(index) with an index
\* outside 0..length-1 raise IndexOutOfRange (they are no silent no-op) and
\* leave the config as it was.
C18_RemoveOutOfRangeRejected ==
    [][/\ (/\ lastCall'.op = "removeSchemaField"
           /\ ~InRange(config.schema, lastCall'.index))
          => (lastCall'.error = "IndexOutOfRange" /\ config' = config)
       /\ (/\ lastCall'.op = "removeRule"
           /\ ~InRange(config.rules, lastCall'.index))
          => (lastCall'.error = "IndexOutOfRange" /\ config' = config)]_vars

\* C19: after any sequence of addSchemaField and removeSchemaField calls
\* from the empty schema, the names of the schema fields are pairwise
\* distinct.
C19_SchemaNamesDistinct ==
    onlyAddRemove =>
        \A i, j \in 1..Len(config.schema) :
            i # j => config.schema[i].name # config.schema[j].name

\* C20: addSchemaField on a schema of length n appends, at the last
\* position, the field named field_{n+1} with dtype "string" and nullable
\* true; the length grows by exactly one and the first n fields stay as
\* they were, in their order.
C20_AddSchemaFieldAppends ==
    [][lastCall'.op = "addSchemaField" =>
        LET n == Len(config.schema) IN
        /\ Len(config'.schema) = n + 1
        /\ config'.schema[n + 1] =
               [name |-> "field_" \o ToString(n + 1),
                dtype |-> "string",
                nullable |-> TRUE]
        /\ SubSeq(config'.schema, 1, n) = config.schema
        /\ config'.rules = config.rules]_vars

\* An add on a schema of length 1 whose field was renamed: field_2 stands
\* at the last position behind the renamed field.
C20_Witness ==
    /\ lastCall.op = "addSchemaField"
    /\ config.schema =
          <<[name |-> "id", dtype |-> "string", nullable |-> TRUE],
            [name |-> "field_2", dtype |-> "string", nullable |-> TRUE]>>

\* ------------------------------------------------------------------------
\* The page and the history panel
\* ------------------------------------------------------------------------

\* The step ends the handler suspended as task t.
Ends(t) == tasks' = Finished(t)

\* C11: a response to a column request made for a file that is no longer
\* the selected one is discarded: availableColumns holds no columns but
\* those inferred from the selected file, and is empty while no file is
\* selected.
C11_ColumnsOfSelectedFile ==
    IF file = NoFile
    THEN availableColumns = <<>>
    ELSE availableColumns \in {<<>>, ColumnsOf(file)}

\* C12: handleCompare makes its two get_report calls together; the
\* comparison is set only by a request whose two calls both succeeded, to
\* the two reports that request fetched; when either call fails the request
\* ends with the comparison left as it was.
C12_ComparisonOfBothOrNone ==
    [][/\ (/\ lastCall'.op = "handleCompare"
           /\ lastCall'.call = "none"
           /\ compareIds.a # "" /\ compareIds.b # ""
           /\ compareIds.a # compareIds.b)
          => tasks' = Started([op |-> "handleCompare",
                               ids |-> compareIds,
                               got |-> [a |-> NoReport, b |-> NoReport]])
       /\ comparison' # comparison
          => \E t \in BagToSet(tasks) :
                /\ t.op = "handleCompare"
                /\ Ends(t)
                /\ lastCall'.error = "none"
                /\ t.got.a # NoReport \/ t.got.b # NoReport
                /\ comparison'.a = GatewayReport(t.ids.a)
                /\ comparison'.b = GatewayReport(t.ids.b)
       /\ (lastCall'.op = "handleCompare" /\ lastCall'.error # "none")
          => /\ comparison' = comparison
             /\ \E t \in BagToSet(tasks) :
                   t.op = "handleCompare" /\ Ends(t)]_vars

\* A comparison is displayed and a later request, one of whose calls
\* failed, has ended: the comparison displayed is the earlier one, whole.
C12_Witness ==
    /\ lastCall.op = "handleCompare"
    /\ lastCall.error # "none"
    /\ comparison # NoComparison
    /\ comparison.a = GatewayReport(comparison.a.id)
    /\ comparison.b = GatewayReport(comparison.b.id)

\* C13: a step that handles the failure of a Gateway call leaves the
\* config, the current report and the history list as they were.
C13_FailureKeepsState ==
    [][lastCall'.error # "none" =>
        /\ config' = config
        /\ currentReport' = currentReport
        /\ reports' = reports]_vars

\* A get_report call has failed while a template, a report and a history
\* were held.
C13_Witness ==
    /\ lastCall.call = "get_report"
    /\ lastCall.error # "none"
    /\ config = TemplateConfig
    /\ currentReport # NoReport
    /\ reports # <<>>

\* The message a handler displays for the failure of a Gateway call.
FailureMessage(call, error) ==
    CASE call = "fetch_template" -> "Unable to load template: " \o error
      [] call = "list_reports" -> "Unable to load reports: " \o error
      [] call = "get_report" -> "Unable to load report: " \o error
      [] call = "run_audit" -> "Audit failed: " \o error
      [] call = "delete_report" -> "Unable to delete report: " \o error

PrimaryCalls ==
    {"fetch_template", "list_reports", "get_report", "run_audit",
     "delete_report"}

\* C14: when a handler ends after one of its primary Gateway calls failed
\* (the list_reports refresh inside runAudit and deleteReport included),
\* the message displayed is the failure message of that call, and the
\* failed call is not made again.
C14_FailureMessageDisplayed ==
    [][(lastCall'.error # "none" /\ lastCall'.call \in PrimaryCalls) =>
        /\ message' = FailureMessage(lastCall'.call, lastCall'.error)
        /\ \E t \in BagToSet(tasks) : Ends(t)]_vars

\* C15: handleCompare with report A unset, report B unset or both ids
\* equal makes no Gateway call, displays the validation message and leaves
\* the displayed comparison as it was.
C15_CompareRejected ==
    [][(/\ lastCall'.op = "handleCompare"
        /\ lastCall'.call = "none"
        /\ \/ compareIds.a = ""
           \/ compareIds.b = ""
           \/ compareIds.a = compareIds.b) =>
        /\ tasks' = tasks
        /\ message' = "Choose two different reports to compare."
        /\ comparison' = comparison]_vars

\* handleCompare was rejected for two equal ids while a comparison was
\* displayed.
C15_Witness ==
    /\ lastCall.op = "handleCompare"
    /\ lastCall.call = "none"
    /\ compareIds.a # ""
    /\ compareIds.a = compareIds.b
    /\ message = "Choose two different reports to compare."
    /\ comparison # NoComparison

\* issues_found of the report the Gateway stores under an id.
StoredIssuesFound(id) == GatewayReport(id).summary.issues_found

\* C16: when a request sets the comparison, the delta displayed is
\* issues_found of the report of the second selected id minus issues_found
\* of the report of the first selected id (5 for A and 3 for B give -2).
C16_DeltaIsBMinusA ==
    [][comparison' # comparison =>
        \E t \in BagToSet(tasks) :
            /\ t.op = "handleCompare"
            /\ Ends(t)
            /\ comparison'.a.id = t.ids.a
            /\ comparison'.b.id = t.ids.b
            /\ Delta(comparison') =
                  StoredIssuesFound(t.ids.b) - StoredIssuesFound(t.ids.a)
            /\ (t.ids.a = "r1" /\ t.ids.b = "r2")
                  => Delta(comparison') = -2]_vars

\* r1 (5 issues) was compared with r2 (3 issues): the delta is -2.
C16_Witness ==
    /\ lastCall.op = "handleCompare"
    /\ lastCall.call = "get_report"
    /\ lastCall.error = "none"
    /\ comparison.a.id = "r1"
    /\ comparison.b.id = "r2"
    /\ Delta(comparison) = -2

\* ------------------------------------------------------------------------
\* The configuration form: structure of the lists
\* ------------------------------------------------------------------------

\* C21: removeSchemaField(i) with i a position of the schema removes the
\* element at i and no other: the list is one shorter, the elements before
\* i stay where they were and each element after i stands one position
\* lower; two adds on the empty schema followed by the removal of index 0
\* leave field_2 at index 0.
C21_RemoveSchemaFieldShifts ==
    [][(/\ lastCall'.op = "removeSchemaField"
        /\ InRange(config.schema, lastCall'.index)) =>
        LET i == lastCall'.index + 1
            n == Len(config.schema)
        IN  /\ Len(config'.schema) = n - 1
            /\ \A j \in 1..(i - 1) : config'.schema[j] = config.schema[j]
            /\ \A j \in (i + 1)..n : config'.schema[j - 1] = config.schema[j]
            /\ (/\ onlyAddRemove
                /\ n = 2
                /\ config.schema[1].name = "field_1"
                /\ config.schema[2].name = "field_2"
                /\ i = 1)
               => config'.schema[1].name = "field_2"]_vars

\* The element in the middle of three was removed: field_1 stays at index
\* 0 and field_3 stands at index 1.
C21_Witness ==
    /\ lastCall.op = "removeSchemaField"
    /\ lastCall.index = 1
    /\ onlyAddRemove
    /\ Len(config.schema) = 2
    /\ config.schema[1].name = "field_1"
    /\ config.schema[2].name = "field_3"

\* C23: addRule on a rule list of length n appends one rule, named
\* "Rule {n+1}", with the expression "1 = 1" and the severity "warning";
\* the first n rules and the schema stay as they were.
C23_AddRuleAppendsInertRule ==
    [][lastCall'.op = "addRule" =>
        LET n == Len(config.rules) IN
        /\ Len(config'.rules) = n + 1
        /\ config'.rules[n + 1].name = "Rule " \o ToString(n + 1)
        /\ config'.rules[n + 1].expression = "1 = 1"
        /\ config'.rules[n + 1].severity = "warning"
        /\ SubSeq(config'.rules, 1, n) = config.rules
        /\ config'.schema = config.schema]_vars

\* A second rule was added behind a rule whose severity was edited, with a
\* schema field present.
C23_Witness ==
    /\ lastCall.op = "addRule"
    /\ config.rules =
          <<[name |-> "Rule 1", expression |-> "1 = 1",
             severity |-> "error", description |-> ""],
            [name |-> "Rule 2", expression |-> "1 = 1",
             severity |-> "warning", description |-> ""]>>
    /\ Len(config.schema) = 1

SchemaCalls == {"updateSchemaField", "addSchemaField", "removeSchemaField"}
RuleCalls == {"updateRule", "addRule", "removeRule"}

\* new is old with the properties of some drawn partial put over it, and
\* nothing else changed.
OnlyPartialChanged(old, new, partials) ==
    \E partial \in partials :
        /\ DOMAIN new = (DOMAIN old) \cup (DOMAIN partial)
        /\ \A k \in DOMAIN partial : new[k] = partial[k]
        /\ \A k \in (DOMAIN old) \ (DOMAIN partial) : new[k] = old[k]

\* C27: updateSchemaField(i, partial) and updateRule(i, partial) with i a
\* position of the list keep the length of the list and every other
\* element, and change on the element at i only the properties named in
\* the partial; every schema call leaves rules, dataset_name and
\* primary_key as they were, and every rule call leaves schema,
\* dataset_name and primary_key as they were.
C27_OnlyTheTouchedChanges ==
    [][/\ (/\ lastCall'.op = "updateSchemaField"
           /\ InRange(config.schema, lastCall'.index))
          => LET i == lastCall'.index + 1 IN
             /\ Len(config'.schema) = Len(config.schema)
             /\ \A j \in 1..Len(config.schema) :
                   j # i => config'.schema[j] = config.schema[j]
             /\ OnlyPartialChanged(config.schema[i], config'.schema[i],
                                   SchemaPartials)
       /\ (/\ lastCall'.op = "updateRule"
           /\ InRange(config.rules, lastCall'.index))
          => LET i == lastCall'.index + 1 IN
             /\ Len(config'.rules) = Len(config.rules)
             /\ \A j \in 1..Len(config.rules) :
                   j # i => config'.rules[j] = config.rules[j]
             /\ OnlyPartialChanged(config.rules[i], config'.rules[i],
                                   RulePartials)
       /\ lastCall'.op \in SchemaCalls
          => /\ config'.rules = config.rules
             /\ config'.dataset_name = config.dataset_name
             /\ config'.primary_key = config.primary_key
       /\ lastCall'.op \in RuleCalls
          => /\ config'.schema = config.schema
             /\ config'.dataset_name = config.dataset_name
             /\ config'.primary_key = config.primary_key]_vars

\* The second of two fields was made not nullable: its name and dtype, the
\* first field and the rule are as they were added.
C27_Witness ==
    /\ lastCall.op = "updateSchemaField"
    /\ lastCall.index = 1
    /\ Len(config.schema) = 2
    /\ config.schema[1] =
          [name |-> "field_1", dtype |-> "string", nullable |-> TRUE]
    /\ config.schema[2] =
          [name |-> "field_2", dtype |-> "string", nullable |-> FALSE]
    /\ config.rules =
          <<[name |-> "Rule 1", expression |-> "1 = 1",
             severity |-> "warning", description |-> ""]>>

CommasOf(raw) == {i \in 1..Len(raw) : raw[i] = ","}
PieceEnd(raw, p) ==
    CHOOSE q \in CommasOf(raw) \cup {Len(raw) + 1} :
        /\ q > p
        /\ \A r \in CommasOf(raw) : r > p => q <= r

\* The tokens of a text from the piece after position p on: of each piece
\* what lies between its first and its last character that is not white
\* space, and nothing for a piece without such a character.
RECURSIVE TokensFrom(_, _)
TokensFrom(raw, p) ==
    LET q == PieceEnd(raw, p)
        inked == {i \in (p + 1)..(q - 1) : raw[i] \notin WhiteSpace}
        first == CHOOSE i \in inked : \A k \in inked : i <= k
        last == CHOOSE i \in inked : \A k \in inked : i >= k
        token == IF inked = {} THEN <<>> ELSE <<SubSeq(raw, first, last)>>
    IN  token \o (IF q > Len(raw) THEN <<>> ELSE TokensFrom(raw, q))

\* C22: a change of the allowed_values input to a raw text stores, in the
\* field at its index, the list of the comma-separated tokens of the text,
\* trimmed, without the empty ones, in the order of the text: "a, ,b"
\* stores ["a","b"] and "a, b ,, c" stores ["a","b","c"]; no stored token
\* is empty or starts or ends with white space.
C22_AllowedValuesSplitTrimmed ==
    [][lastCall'.op = "changeAllowedValues" =>
        LET raw == lastCall'.value
            stored == config'.schema[lastCall'.index + 1].allowed_values
        IN  /\ stored = TokensFrom(raw, 0)
            /\ \A i \in 1..Len(stored) :
                  /\ stored[i] # <<>>
                  /\ stored[i][1] \notin WhiteSpace
                  /\ stored[i][Len(stored[i])] \notin WhiteSpace
            /\ raw = <<"a", ",", " ", ",", "b">>
                  => stored = << <<"a">>, <<"b">> >>
            /\ raw = <<"a", ",", " ", "b", " ", ",", ",", " ", "c">>
                  => stored = << <<"a">>, <<"b">>, <<"c">> >>]_vars

\* The text "a, ,b" was left in the input of the template's field: the
\* tokens "a" and "b" are stored beside the other properties of the field.
C22_Witness ==
    /\ lastCall = [op |-> "changeAllowedValues", index |-> 0,
                   call |-> "none", error |-> "none",
                   value |-> <<"a", ",", " ", ",", "b">>]
    /\ config.schema = <<[name |-> "id", dtype |-> "integer",
                          nullable |-> FALSE,
                          allowed_values |-> << <<"a">>, <<"b">> >>]>>

\* ------------------------------------------------------------------------
\* The page: what a response replaces and what it leaves
\* ------------------------------------------------------------------------

\* C25: a column inference that fails (a response that is not ok, or a
\* rejected fetch) leaves the message, the config, the report, the history
\* and availableColumns as they were.
C25_ColumnInferenceFailsSilently ==
    [][(lastCall'.op = "fetchColumns" /\ lastCall'.error # "none") =>
        /\ message' = message
        /\ config' = config
        /\ currentReport' = currentReport
        /\ reports' = reports
        /\ availableColumns' = availableColumns]_vars

\* The columns of a.csv are displayed under a message when the inference
\* for b.csv has failed.
C25_Witness ==
    /\ lastCall.op = "fetchColumns"
    /\ lastCall.error # "none"
    /\ file = "b.csv"
    /\ availableColumns = ColumnsOf("a.csv")
    /\ message # ""

\* C26: the step that applies a fetch_template response makes the config
\* equal to the returned template, whatever edits the form made while the
\* fetch was outstanding; the step that applies a list_reports response
\* makes the history equal to the returned list, and the step that applies
\* a get_report response makes the current report equal to the returned
\* report.
C26_ResponseReplacesWholesale ==
    [][lastCall'.error = "none" =>
        /\ lastCall'.call = "fetch_template" =>
              /\ config' = lastCall'.data.fetch_template
              /\ config' = TemplateConfig
        /\ lastCall'.call = "list_reports" =>
              reports' = lastCall'.data.list_reports
        /\ lastCall'.call = "get_report" =>
              currentReport' = lastCall'.data.get_report]_vars

\* The template requested at mount has been applied over a config to
\* which the user had added two fields and written a rule while it was
\* outstanding: none of the edits is left.
C26_Witness ==
    /\ lastCall.call = "fetch_template"
    /\ lastCall.error = "none"
    /\ issued = 0
    /\ Len(lastCall.prev.fetch_template.schema) = 2
    /\ Len(lastCall.prev.fetch_template.rules) = 1
    /\ config = TemplateConfig

\* C28: of two loadReport requests outstanding at once, the response of the
\* one requested earlier does not overwrite the report of the one requested
\* later: a step that applies the response of a request made before the
\* request whose response the step before it applied leaves the current
\* report as it was.
C28_LatestRequestedReportStays ==
    [][(/\ lastCall.op = "loadReport"
        /\ lastCall.call = "get_report"
        /\ lastCall.error = "none"
        /\ lastCall'.op = "loadReport"
        /\ lastCall'.call = "get_report"
        /\ lastCall'.error = "none"
        /\ lastCall'.index < lastCall.index)
       => currentReport' = currentReport]_vars

\* C29: when a deleteReport(id) whose delete_report call succeeded ends,
\* the current report does not have that id, whatever loadReport and
\* runAudit steps were taken while it was under way.  The id is one no run
\* returns, so that only a load can have displayed it.
C29_DeletedReportNotDisplayed ==
    [][\A t \in BagToSet(tasks) :
        (/\ t.op = "deleteReport"
         /\ t.pc = "list_reports"
         /\ t.id # AuditedId
         /\ lastCall'.op = "deleteReport"
         /\ lastCall'.call = "list_reports"
         /\ tasks' = Finished(t))
        => currentReport'.id # t.id]_vars

\* ------------------------------------------------------------------------
\* The page: runAudit and fetchTemplate from start to end
\* ------------------------------------------------------------------------

\* The step that invokes runAudit.
RunAuditInvoked == lastCall'.op = "runAudit" /\ lastCall'.call = "none"

\* C30: runAudit without a file makes no Gateway call and changes the
\* message only; with a file, isRunning is true from the step that makes
\* the run_audit call on, for as long as the run is under way, and becomes
\* false in the end whether run_audit and the list_reports refresh succeed
\* or fail (as loadingTemplate does for fetchTemplate); the step that
\* applies a successful run_audit response makes the returned report
\* current, and the refresh that follows, failed or not, leaves it.
C30_RunAuditStartsAndEnds ==
    /\ [][(RunAuditInvoked /\ file = NoFile) =>
            /\ message' = "Upload a CSV/Excel file first."
            /\ UNCHANGED <<tasks, issued, config, file, currentReport,
                           reports, isRunning, loadingTemplate,
                           availableColumns, compareIds, comparison>>]_vars
    /\ [][(RunAuditInvoked /\ file # NoFile) =>
            /\ isRunning'
            /\ tasks' = Started([op |-> "runAudit", pc |-> "run_audit"])]_vars
    /\ [](\A t \in BagToSet(tasks) : t.op = "runAudit" => isRunning)
    /\ [][(lastCall'.op = "runAudit" /\ lastCall'.call = "run_audit"
              /\ lastCall'.error = "none") =>
            currentReport' = GatewayReport(AuditedId)]_vars
    /\ [][(lastCall'.op = "runAudit" /\ lastCall'.call = "list_reports") =>
            /\ currentReport' = currentReport
            /\ ~isRunning']_vars
    /\ (isRunning ~> ~isRunning)
    /\ (loadingTemplate ~> ~loadingTemplate)

\* A run has ended whose run_audit call succeeded and whose refresh of the
\* history failed: the returned report is current and isRunning is false.
C30_Witness ==
    /\ lastCall.op = "runAudit"
    /\ lastCall.call = "list_reports"
    /\ lastCall.error # "none"
    /\ ~isRunning
    /\ file # NoFile
    /\ currentReport = GatewayReport(AuditedId)

====
